---- MODULE Spec2Model ----
(***************************************************************************)
(* The context-caching subsystem of kanoa's Gemini backend                 *)
(* (kanoa/backends/gemini.py): the single knowledge-base cache slot kept   *)
(* by GeminiBackend (create_kb_cache, clear_cache), the interpret request  *)
(* path that uses it, and the usage accountant (_calculate_usage).         *)
(*                                                                         *)
(* Conventions of the model                                                *)
(*  - Python None is the integer None (-1); cache names and content        *)
(*    digests are integers >= 1, token counts are integers >= 0.           *)
(*  - A knowledge-base text is an index into the tables TextLen (its       *)
(*    len()) and Sha256Prefix (the 16 hex digits the code keeps of its     *)
(*    SHA-256).                                                            *)
(*  - Money is exact: prices are cents per 1M tokens, a cost is            *)
(*    tokens * price, i.e. in units of 1e-8 USD (0.026 USD = 2600000).     *)
(*    The code computes the same quantities in double precision.           *)
(*  - The remote service (client.caches, client.models) is the            *)
(*    environment: every call either succeeds or raises, chosen by \E.     *)
(***************************************************************************)
EXTENDS Integers, Sequences, FiniteSets, TLC

VARIABLES
    enable_caching,        \* BaseBackend.enable_caching
    model,                 \* GeminiBackend.model
    call_count,            \* BaseBackend.call_count
    cached_content_name,   \* GeminiBackend._cached_content_name
    cached_content_hash,   \* GeminiBackend._cached_content_hash
    cache_token_count,     \* GeminiBackend._cache_token_count
    remote_calls,          \* every call made to client.caches, in order
    hist,                  \* one record per completed public call, in order
    response,              \* usage metadata of the last generate_content response
    result,                \* the InterpretationResult of the last interpret
    serialized,            \* the callers hold a mutex around each whole call
    threads,               \* per caller: its position inside create_kb_cache
    track_costs,           \* AnalyticsInterpreter.track_costs
    total_tokens,          \* AnalyticsInterpreter.total_tokens
    total_cost,            \* AnalyticsInterpreter.total_cost
    usages,                \* result.usage of each AnalyticsInterpreter.interpret
    uploaded_pdfs,         \* GeminiBackend.uploaded_pdfs (the paths it maps)
    upload,                \* the position of load_pdfs and the file it waits for
    cache_pdfs,            \* <<name, path>>: the PDFs in each cache of the service
    request                \* the last request made to generate_content

vars == <<enable_caching, model, call_count, cached_content_name,
          cached_content_hash, cache_token_count, remote_calls, hist,
          response, result, serialized, threads, track_costs, total_tokens,
          total_cost, usages, uploaded_pdfs, upload, cache_pdfs, request>>

caller_vars == <<serialized, threads>>

interpreter_vars == <<track_costs, total_tokens, total_cost, usages>>

file_vars == <<uploaded_pdfs, upload>>

request_vars == <<cache_pdfs, request>>

cache_vars == <<cached_content_name, cached_content_hash, cache_token_count>>

config_vars == <<enable_caching, model>>

None == -1

\* Number of public calls (create_kb_cache, clear_cache, interpret) in a run.
MaxOps == 3

\* Number of interpret calls among them (the cap on call_count).
MaxInterprets == 1

\* Number of create_kb_cache calls in a run of the size-gate specification.
MaxGateOps == 2

(***************************************************************************)
(* Program constants                                                       *)
(***************************************************************************)
PRICING ==
    [input_short   |-> 200,
     output_short  |-> 1200,
     input_long    |-> 400,
     output_long   |-> 1800,
     cached_input  |-> 50,
     cached_storage |-> 100]

SHORT_CONTEXT_LIMIT == 200000

CHARS_PER_TOKEN == 4

MIN_CACHE_TOKENS ==
    ("gemini-3-pro-preview" :> 2048) @@
    ("gemini-2.5-pro"       :> 4096) @@
    ("gemini-2.5-flash"     :> 1024) @@
    ("default"              :> 1024)

\* dict.get(key, default)
DictGet(d, k, default) == IF k \in DOMAIN d THEN d[k] ELSE default

\* The models a backend is constructed with in the lifecycle runs (the default
\* model and one with another minimum), and in the size-gate runs
\* ("gemini-2.0-flash" has no entry in MIN_CACHE_TOKENS).
Models == {"gemini-3-pro-preview", "gemini-2.5-pro"}

GateModels == Models \cup {"gemini-2.5-flash", "gemini-2.0-flash"}

(***************************************************************************)
(* Knowledge-base texts.  Text 1 is the empty string.  Texts 13 and 15 are *)
(* different texts with the same 16-hex-digit digest prefix.               *)
(***************************************************************************)
TextLen ==
    <<0, 3, 4, 4092, 4095, 4096, 8188, 8191, 8192, 8196,
      16380, 16383, 16384, 16384, 16384, 16388>>

Texts == DOMAIN TextLen

Sha256Prefix ==
    <<101, 102, 103, 104, 105, 106, 107, 108, 109, 110,
      111, 112, 113, 114, 113, 116>>

\* The texts passed to create_kb_cache in the lifecycle runs, and the
\* kb_context values passed to interpret (None: no knowledge base).
KbTexts == {1, 9, 13, 15}

InterpretTexts == {None, 13}

(***************************************************************************)
(* The remote service: what one public call may meet.                      *)
(*   update_ok  - client.caches.update returns (FALSE: it raises)          *)
(*   create_ok  - client.caches.create returns (FALSE: it raises)          *)
(*   tokens     - usage_metadata.total_token_count of the created cache,   *)
(*                None when the cache object carries no usage_metadata     *)
(***************************************************************************)
CacheTokenCounts == {None, 3000}

RemoteOutcomes ==
    {e \in [update_ok : BOOLEAN, create_ok : BOOLEAN, tokens : CacheTokenCounts] :
       ~e.create_ok => e.tokens = None}

RemoteCall(op, name, text, ok) ==
    [op |-> op, name |-> name, text |-> text, ok |-> ok]

\* The name the service gives the next cache it creates: names are never reused.
NextCacheName ==
    1 + Cardinality({i \in DOMAIN remote_calls :
                       remote_calls[i].op = "create" /\ remote_calls[i].ok})

(***************************************************************************)
(* The cache slot                                                          *)
(***************************************************************************)
Slot(name, hash, tokens) == [name |-> name, hash |-> hash, tokens |-> tokens]

EmptySlot == Slot(None, None, 0)

CacheState == Slot(cached_content_name, cached_content_hash, cache_token_count)

(***************************************************************************)
(* create_kb_cache                                                         *)
(***************************************************************************)
caching_disabled == ~enable_caching

\* Faulty variant: the character count is taken for the token count.
estimated_tokens_undivided(kb) == TextLen[kb]

estimated_tokens(kb) == TextLen[kb] \div CHARS_PER_TOKEN

min_tokens(m) == DictGet(MIN_CACHE_TOKENS, m, MIN_CACHE_TOKENS["default"])

\* Faulty variant: a text exactly at the minimum is rejected.
too_small_at_minimum(kb, m) ==
    TextLen[kb] \div CHARS_PER_TOKEN
      <= DictGet(MIN_CACHE_TOKENS, m, MIN_CACHE_TOKENS["default"])

too_small(kb, m) == estimated_tokens(kb) < min_tokens(m)

content_hash(kb) == Sha256Prefix[kb]

\* Faulty variant: the reuse test forgets to compare the digests.
cache_matches_any_hash(st, h) == st.name # None

\* "if self._cached_content_name and self._cached_content_hash == content_hash"
cache_matches(st, h) == st.name # None /\ st.hash = h

\* Faulty variant: a failed refresh leaves the name in place.
refresh_failed_keeps_name(st) == st

\* "except Exception: self._cached_content_name = None"
refresh_failed(st) == [st EXCEPT !.name = None]

\* Faulty variant: a held name is kept when the new digest is recorded.
cache_stored_keeps_name(st, name, h, tokens) ==
    [name |-> IF st.name # None THEN st.name ELSE name, hash |-> h,
     tokens |-> IF tokens = None THEN st.tokens ELSE tokens]

\* Faulty variant: the digest of the cached text is not recorded.
cache_stored_without_hash(st, name, h, tokens) ==
    [name |-> name, hash |-> st.hash,
     tokens |-> IF tokens = None THEN st.tokens ELSE tokens]

\* The assignments after a successful client.caches.create.
cache_stored(st, name, h, tokens) ==
    Slot(name, h, IF tokens = None THEN st.tokens ELSE tokens)

\* "except Exception as e: ... return None": the slot is left as it is.
create_failed(st) == st

\* Faulty variant: client.caches.update is called outside any try block.
update_unguarded == FALSE

\* Whether the call is inside a try block whose handler swallows the exception.
update_guarded == TRUE

\* Faulty variant: client.caches.create is called outside any try block.
create_unguarded == FALSE

create_guarded == TRUE

delete_guarded == TRUE

Outcome(st, ret, via, calls) ==
    [st |-> st, ret |-> ret, via |-> via, calls |-> calls]

\* Faulty variant: the handle being replaced is deleted before the create.
create_cache_deleting_old(st, kb, h, env, fresh, before) ==
    LET del == IF st.name # None
               THEN <<RemoteCall("delete", st.name, None, TRUE)>> ELSE <<>>
    IN  IF env.create_ok
        THEN Outcome([name |-> fresh, hash |-> h,
                      tokens |-> IF env.tokens = None THEN st.tokens ELSE env.tokens],
                     fresh, "created",
                     before \o del \o <<RemoteCall("create", fresh, kb, TRUE)>>)
        ELSE Outcome(st, None, "failed",
                     before \o del \o <<RemoteCall("create", None, kb, FALSE)>>)

\* The part of create_kb_cache from "Build cache content" on: one
\* client.caches.create, after the remote calls `before`.
create_cache(st, kb, h, env, fresh, before) ==
    IF env.create_ok
    THEN Outcome(cache_stored(st, fresh, h, env.tokens), fresh, "created",
                 before \o <<RemoteCall("create", fresh, kb, TRUE)>>)
    ELSE IF create_guarded
    THEN Outcome(create_failed(st), None, "failed",
                 before \o <<RemoteCall("create", None, kb, FALSE)>>)
    ELSE Outcome(st, None, "raised",
                 before \o <<RemoteCall("create", None, kb, FALSE)>>)

\* Faulty variant: a text under the minimum empties the slot.
create_kb_cache_forgetting_when_small(st, kb, env, fresh) ==
    IF caching_disabled THEN Outcome(st, None, "disabled", <<>>)
    ELSE IF too_small(kb, model) THEN Outcome(EmptySlot, None, "too_small", <<>>)
    ELSE IF cache_matches(st, content_hash(kb))
    THEN IF env.update_ok
         THEN Outcome(st, st.name, "reused",
                      <<RemoteCall("update", st.name, None, TRUE)>>)
         ELSE create_cache(refresh_failed(st), kb, content_hash(kb), env, fresh,
                           <<RemoteCall("update", st.name, None, FALSE)>>)
    ELSE create_cache(st, kb, content_hash(kb), env, fresh, <<>>)

\* Faulty variant: the held name is returned whether or not the refresh
\* succeeded.
create_kb_cache_trusting_handle(st, kb, env, fresh) ==
    IF caching_disabled THEN Outcome(st, None, "disabled", <<>>)
    ELSE IF too_small(kb, model) THEN Outcome(st, None, "too_small", <<>>)
    ELSE IF cache_matches(st, content_hash(kb))
    THEN Outcome(st, st.name, "reused",
                 <<RemoteCall("update", st.name, None, env.update_ok)>>)
    ELSE create_cache(st, kb, content_hash(kb), env, fresh, <<>>)

\* The whole of create_kb_cache(kb) from slot st: the new slot, the returned
\* name, the return statement taken (via) and the remote calls made.
\*   via = "disabled"   return None      (caching off)
\*         "too_small"  return None      (below the model's minimum)
\*         "reused"     return self._cached_content_name  (TTL refreshed)
\*         "created"    return cache.name
\*         "failed"     return None      (create raised)
\*         "raised"     an exception leaves the method
create_kb_cache(st, kb, env, fresh) ==
    IF caching_disabled THEN Outcome(st, None, "disabled", <<>>)
    ELSE IF too_small(kb, model) THEN Outcome(st, None, "too_small", <<>>)
    ELSE LET h == content_hash(kb)
             upd == <<RemoteCall("update", st.name, None, env.update_ok)>>
         IN  IF cache_matches(st, h)
             THEN IF env.update_ok THEN Outcome(st, st.name, "reused", upd)
                  ELSE IF update_guarded
                  THEN create_cache(refresh_failed(st), kb, h, env, fresh, upd)
                  ELSE Outcome(st, None, "raised", upd)
             ELSE create_cache(st, kb, h, env, fresh, <<>>)

(***************************************************************************)
(* clear_cache                                                             *)
(***************************************************************************)
\* Faulty variant: nothing is reset.
cache_reset_nothing(st) == st

\* Faulty variant: the reset forgets the name.
cache_reset_keeps_name(st) == [name |-> st.name, hash |-> None, tokens |-> 0]

\* "finally:" resets the three fields.
cache_reset(st) == EmptySlot

clear_cache(st, delete_ok) ==
    IF st.name # None
    THEN Outcome(cache_reset(st), None,
                 IF delete_ok \/ delete_guarded THEN "cleared" ELSE "raised",
                 <<RemoteCall("delete", st.name, None, delete_ok)>>)
    ELSE Outcome(st, None, "cleared", <<>>)

(***************************************************************************)
(* _calculate_usage                                                        *)
(***************************************************************************)
UsageMetadata(p, c, k) ==
    [prompt_token_count |-> p, candidates_token_count |-> c,
     cached_content_token_count |-> k]

\* A response without usage_metadata.
NoUsageMetadata == UsageMetadata(None, None, None)

UsageInfo(i, o, cost, k) ==
    [input_tokens |-> i, output_tokens |-> o, cost |-> cost, cached_tokens |-> k]

\* usage = None
NoUsage == UsageInfo(None, None, None, None)

\* Faulty variant: exactly 200,000 input tokens select the long-context rate.
input_price_below_limit(input_tokens) ==
    IF input_tokens < SHORT_CONTEXT_LIMIT
    THEN PRICING.input_short ELSE PRICING.input_long

input_price(input_tokens) ==
    IF input_tokens <= SHORT_CONTEXT_LIMIT
    THEN PRICING.input_short ELSE PRICING.input_long

output_price(input_tokens) ==
    IF input_tokens <= SHORT_CONTEXT_LIMIT
    THEN PRICING.output_short ELSE PRICING.output_long

\* Faulty variant: the output is billed at the short-context rate on every tier.
output_cost_at_short_rate(input_tokens, output_tokens) ==
    output_tokens * PRICING.output_short

\* Faulty variant: the cached tokens are billed on top of the whole input.
input_cost_cached_on_top(input_tokens, cached_tokens) ==
    cached_tokens * PRICING.cached_input
    + input_tokens * (IF input_tokens <= SHORT_CONTEXT_LIMIT
                      THEN PRICING.input_short ELSE PRICING.input_long)

\* Faulty variant: cached tokens are billed at the standard rate.
input_cost_undiscounted(input_tokens, cached_tokens) ==
    input_tokens * (IF input_tokens <= SHORT_CONTEXT_LIMIT
                    THEN PRICING.input_short ELSE PRICING.input_long)

\* "if cached_tokens > 0: ... else: ..." (cost of the input side)
input_cost(input_tokens, cached_tokens) ==
    IF cached_tokens > 0
    THEN cached_tokens * PRICING.cached_input
         + (input_tokens - cached_tokens) * input_price(input_tokens)
    ELSE input_tokens * input_price(input_tokens)

output_cost(input_tokens, output_tokens) ==
    output_tokens * output_price(input_tokens)

\* _calculate_usage(response, cache_used); cache_used is accepted and not read.
calculate_usage(resp, cache_used) ==
    IF resp = NoUsageMetadata THEN NoUsage
    ELSE LET input_tokens  == resp.prompt_token_count
             output_tokens == resp.candidates_token_count
             cached_tokens == resp.cached_content_token_count
         IN  UsageInfo(input_tokens, output_tokens,
                       input_cost(input_tokens, cached_tokens)
                         + output_cost(input_tokens, output_tokens),
                       IF cached_tokens > 0 THEN cached_tokens ELSE None)

(***************************************************************************)
(* interpret                                                               *)
(***************************************************************************)
\* What client.models.generate_content may do: raise, or return a response
\* with or without usage metadata.
PromptTokenCounts == {10000, 250000}

CandidateTokenCounts == {500}

CachedTokenCounts == {0, 8000}

GenResponses ==
    {NoUsageMetadata} \cup
    {UsageMetadata(p, c, k) : p \in PromptTokenCounts,
                              c \in CandidateTokenCounts,
                              k \in CachedTokenCounts}

GenOutcomes ==
    {[ok |-> FALSE, usage_metadata |-> NoUsageMetadata]} \cup
    [ok : {TRUE}, usage_metadata : GenResponses]

\* InterpretationResult: error is TRUE for the result built in the except
\* branch (no usage, no metadata).
InterpretationResult(error, usage, has_metadata, cache_used, cache_name) ==
    [error |-> error, usage |-> usage, has_metadata |-> has_metadata,
     cache_used |-> cache_used, cache_name |-> cache_name]

NoResult == InterpretationResult(FALSE, NoUsage, FALSE, FALSE, None)

\* "if kb_context and self.enable_caching": kb is None or a text.
wants_cache(kb) == kb # None /\ TextLen[kb] > 0 /\ enable_caching

\* "try: ... except Exception as e:" around the generation request.
generate_guarded == TRUE

\* Faulty variant: the handler of a failed generation empties the slot.
generation_failed_clears(st) == EmptySlot

\* The cache slot after the except branch of interpret: it is not touched.
generation_failed(st) == st

\* The keys of the metadata dict of a successful result.
metadata_keys == {"model", "pdf_count", "cache_used", "cache_name"}

\* result.metadata is a dict that has the key.
metadata_has(res, key) == res.has_metadata /\ key \in metadata_keys

\* Python truth of an optional text: not None and not empty.
truthy(s) == s # None /\ TextLen[s] > 0

\* A prompt is recorded by the texts that appear in it (None: absent).
Prompt(custom_prompt, kb_context, context, focus) ==
    [custom_prompt |-> custom_prompt, kb_context |-> kb_context,
     context |-> context, focus |-> focus]

\* _build_prompt(context, focus, kb_context, custom_prompt)
build_prompt(context, focus, kb_context, custom_prompt) ==
    IF truthy(custom_prompt) THEN Prompt(custom_prompt, None, None, None)
    ELSE Prompt(None,
                IF truthy(kb_context) THEN kb_context ELSE None,
                IF truthy(context) THEN context ELSE None,
                IF truthy(focus) THEN focus ELSE None)

\* A request to generate_content: the cached_content of its config, the PDFs
\* among its parts, its prompt, and the PDFs the backend held when it was made.
Request(cached_content, pdfs, prompt, held) ==
    [sent |-> TRUE, cached_content |-> cached_content, pdfs |-> pdfs,
     prompt |-> prompt, held |-> held]

\* No request has been made.
NoRequest ==
    [sent |-> FALSE, cached_content |-> None, pdfs |-> {},
     prompt |-> Prompt(None, None, None, None), held |-> {}]

\* "if not cache_name: for pdf_file in self.uploaded_pdfs.values(): ..."
request_pdfs(cache_name, held) == IF cache_name = None THEN held ELSE {}

\* The request interpret builds once the cache step gave cache_name.
interpret_request(kb, cache_name, context, focus, custom_prompt, held) ==
    Request(cache_name, request_pdfs(cache_name, held),
            build_prompt(context, focus,
                         IF cache_name # None THEN None ELSE kb,
                         custom_prompt),
            held)

\* The result interpret returns after the cache step gave cache_name.
interpret_result(gen, cache_name) ==
    IF gen.ok
    THEN InterpretationResult(FALSE,
                              calculate_usage(gen.usage_metadata, cache_name # None),
                              TRUE, cache_name # None, cache_name)
    ELSE InterpretationResult(TRUE, NoUsage, FALSE, FALSE, None)

(***************************************************************************)
(* The record kept of each public call.                                    *)
(*   op    "create_kb_cache" | "clear_cache" | "interpret"                 *)
(*   kb    the text passed (None: none)                                    *)
(*   ret   the name create_kb_cache returned (cache_name in interpret)     *)
(*   via   the return statement taken by create_kb_cache / clear_cache,    *)
(*         "skipped" when interpret did not call create_kb_cache           *)
(*   calls the calls made to client.caches during the call                 *)
(*   pre, post  the cache slot before and after                            *)
(*   gen   "ok" | "error" | "none": what generate_content did              *)
(*   cached_content  the cached_content of the generation request          *)
(***************************************************************************)
CallRecord(op, kb, out, pre, gen, cached_content) ==
    [op |-> op, kb |-> kb, ret |-> out.ret, via |-> out.via,
     calls |-> out.calls, pre |-> pre, post |-> out.st,
     gen |-> gen, cached_content |-> cached_content]

SetCache(st) ==
    /\ cached_content_name' = st.name
    /\ cached_content_hash' = st.hash
    /\ cache_token_count' = st.tokens

(***************************************************************************)
(* Actions                                                                 *)
(***************************************************************************)
\* load_pdfs is not running.
IdleUpload ==
    [pc |-> "idle", todo |-> <<>>, path |-> None, state |-> "none",
     named |-> FALSE, loads |-> 0, uploads |-> 0]

\* "for pdf_file in self.uploaded_pdfs.values(): cache_contents.append(...)":
\* the PDFs of the caches after a create_kb_cache step with outcome out.
cache_contents(out) ==
    IF out.via = "created"
    THEN cache_pdfs \cup {<<out.ret, p>> : p \in uploaded_pdfs}
    ELSE cache_pdfs

\* The callers of create_kb_cache that may run at the same time.
Threads == {1, 2}

\* A caller that has not entered create_kb_cache.
IdleThread ==
    [pc |-> "idle", kb |-> None, h |-> None, observed |-> EmptySlot,
     name |-> None, tokens |-> None, ret |-> None, via |-> "none"]

\* "self.total_tokens = {"input": 0, "output": 0}"
NoTokens == [input |-> 0, output |-> 0]

\* The backend is called directly, one call after the other.
Direct == serialized = TRUE /\ track_costs = TRUE

Constructed(models) ==
    /\ uploaded_pdfs = {}
    /\ upload = IdleUpload
    /\ cache_pdfs = {}
    /\ request = NoRequest
    /\ threads = [t \in Threads |-> IdleThread]
    /\ total_tokens = NoTokens
    /\ total_cost = 0
    /\ usages = <<>>
    /\ enable_caching \in BOOLEAN
    /\ model \in models
    /\ call_count = 0
    /\ cached_content_name = None
    /\ cached_content_hash = None
    /\ cache_token_count = 0
    /\ remote_calls = <<>>
    /\ hist = <<>>
    /\ response = NoUsageMetadata
    /\ result = NoResult

Init == Constructed(Models) /\ Direct

CreateKbCacheFrom(texts, bound) ==
    /\ Len(hist) < bound
    /\ \E kb \in texts, env \in RemoteOutcomes :
         LET out == create_kb_cache(CacheState, kb, env, NextCacheName) IN
           /\ SetCache(out.st)
           /\ remote_calls' = remote_calls \o out.calls
           /\ hist' = Append(hist, CallRecord("create_kb_cache", kb, out,
                                              CacheState, "none", None))
           /\ cache_pdfs' = cache_contents(out)
    /\ UNCHANGED <<config_vars, call_count, response, result>>
    /\ UNCHANGED <<caller_vars, interpreter_vars, file_vars, request>>

CreateKbCache == CreateKbCacheFrom(KbTexts, MaxOps)

ClearCache ==
    /\ Len(hist) < MaxOps
    /\ \E delete_ok \in BOOLEAN :
         LET out == clear_cache(CacheState, delete_ok) IN
           /\ SetCache(out.st)
           /\ remote_calls' = remote_calls \o out.calls
           /\ hist' = Append(hist, CallRecord("clear_cache", None, out,
                                              CacheState, "none", None))
    /\ UNCHANGED <<config_vars, call_count, response, result>>
    /\ UNCHANGED <<caller_vars, interpreter_vars, file_vars, request_vars>>

\* GeminiBackend.interpret(context, focus, kb_context = kb, custom_prompt)
\* against a service that behaves as env (client.caches) and gen
\* (client.models.generate_content).
BackendInterpretWith(kb, env, gen, context, focus, custom_prompt) ==
    LET out == IF wants_cache(kb)
               THEN create_kb_cache(CacheState, kb, env, NextCacheName)
               ELSE Outcome(CacheState, None, "skipped", <<>>)
        cache_name == out.ret
        req == interpret_request(kb, cache_name, context, focus, custom_prompt,
                                 uploaded_pdfs)
    IN
      /\ call_count' = call_count + 1
      /\ remote_calls' = remote_calls \o out.calls
      /\ cache_pdfs' = cache_contents(out)
      /\ IF out.via = "raised"
         THEN /\ SetCache(out.st)
              /\ hist' = Append(hist, CallRecord("interpret", kb, out,
                                                 CacheState, "none", None))
              /\ UNCHANGED <<response, result, request>>
         ELSE IF gen.ok \/ generate_guarded
         THEN /\ SetCache(IF gen.ok THEN out.st ELSE generation_failed(out.st))
              /\ hist' = Append(hist, CallRecord("interpret", kb, out,
                                   CacheState,
                                   IF gen.ok THEN "ok" ELSE "error",
                                   cache_name))
              /\ response' = gen.usage_metadata
              /\ result' = interpret_result(gen, cache_name)
              /\ request' = req
         ELSE /\ SetCache(out.st)
              /\ hist' = Append(hist, CallRecord("interpret", kb, out,
                                                 CacheState, "raised", cache_name))
              /\ request' = req
              /\ UNCHANGED <<response, result>>

\* interpret with neither context nor focus nor custom_prompt.
BackendInterpret(kb, env, gen) ==
    BackendInterpretWith(kb, env, gen, None, None, None)

Interpret ==
    /\ Len(hist) < MaxOps
    /\ call_count < MaxInterprets
    /\ \E kb \in InterpretTexts, env \in RemoteOutcomes, gen \in GenOutcomes :
         BackendInterpret(kb, env, gen)
    /\ UNCHANGED <<config_vars, caller_vars, interpreter_vars, file_vars>>

Next == CreateKbCache \/ ClearCache \/ Interpret

Spec == Init /\ [][Next]_vars

\* The size gate on its own: create_kb_cache over every text of the table.
GateCreateKbCache == CreateKbCacheFrom(Texts, MaxGateOps)

NextGate == GateCreateKbCache

InitGate == Constructed(GateModels) /\ Direct

SpecGate == InitGate /\ [][NextGate]_vars

(***************************************************************************)
(* UsageInfo.cache_savings                                                 *)
(***************************************************************************)
\* "full_price = self.cached_tokens / 1_000_000 * 2.00"
SAVINGS_STANDARD_RATE == 200

\* "cached_price = self.cached_tokens / 1_000_000 * 0.50"
SAVINGS_CACHED_RATE == 50

\* The property cache_savings of a UsageInfo u (None: no savings reported).
\* "if not self.cached_tokens" is true of None and of 0.
cache_savings(u) ==
    IF u.cached_tokens = None \/ u.cached_tokens = 0 THEN None
    ELSE u.cached_tokens * SAVINGS_STANDARD_RATE
         - u.cached_tokens * SAVINGS_CACHED_RATE

(***************************************************************************)
(* _calculate_usage on its own, over a wider range of responses.           *)
(***************************************************************************)
UsagePromptCounts == {0, 1, 2000, 10000, 200000, 200001, 250000}

UsageCandidateCounts == {0, 500, 3000}

UsageCachedCounts == {0, 1, 8000, 200000}

\* The usage metadata a response object can carry: the three counts are read
\* as they come, so every combination of non-negative counts is possible,
\* a cached count above the prompt count included.
UsageResponses ==
    {NoUsageMetadata} \cup
    {UsageMetadata(p, c, k) : p \in UsagePromptCounts,
                              c \in UsageCandidateCounts,
                              k \in UsageCachedCounts}

\* One direct call of _calculate_usage(response, cache_used).
CalculateUsage ==
    /\ hist = <<>>
    /\ \E resp \in UsageResponses, cache_used \in BOOLEAN :
         /\ response' = resp
         /\ result' = [NoResult EXCEPT !.usage = calculate_usage(resp, cache_used),
                                       !.cache_used = cache_used]
    /\ hist' = <<CallRecord("calculate_usage", None,
                            Outcome(CacheState, None, "direct", <<>>),
                            CacheState, "none", None)>>
    /\ UNCHANGED <<config_vars, call_count, cache_vars, remote_calls>>
    /\ UNCHANGED <<caller_vars, interpreter_vars, file_vars, request_vars>>

NextUsage == CalculateUsage

SpecUsage == Init /\ [][NextUsage]_vars

(***************************************************************************)
(* A second GeminiBackend against the same remote service.                 *)
(***************************************************************************)
\* GeminiBackend.__init__ with the same settings: the new instance starts with
\* an empty slot and a zero call count; the caches of the service stay.
NewBackend ==
    /\ Len(hist) < MaxOps
    /\ call_count' = 0
    /\ SetCache(EmptySlot)
    /\ hist' = Append(hist, CallRecord("__init__", None,
                                       Outcome(EmptySlot, None, "constructed", <<>>),
                                       CacheState, "none", None))
    /\ uploaded_pdfs' = {}
    /\ UNCHANGED <<config_vars, remote_calls, response, result>>
    /\ UNCHANGED <<caller_vars, interpreter_vars, upload, request_vars>>

NextPersist == CreateKbCache \/ NewBackend

SpecPersist == Init /\ [][NextPersist]_vars

(***************************************************************************)
(* create_kb_cache called by two threads on one backend.  The backend has  *)
(* no lock of its own: a call is a sequence of steps, each remote call     *)
(* taking time, and the steps of the two callers interleave unless the     *)
(* callers serialise whole calls themselves.                               *)
(*   pc  "idle"        not entered                                         *)
(*       "updating"    client.caches.update in flight                      *)
(*       "creating"    client.caches.create in flight                      *)
(*       "store_name"  before "self._cached_content_name = cache.name"     *)
(*       "store_hash"  before "self._cached_content_hash = content_hash"   *)
(*       "store_tokens" before the token count is stored and the name      *)
(*                     returned                                            *)
(*       "done"        returned                                            *)
(***************************************************************************)
\* Number of create_kb_cache calls completed before the two threads start.
MaxSetupOps == 1

\* The texts the threads pass: one that only the lower minimum admits and one
\* that both minimums admit.
ThreadTexts == {9, 13}

\* The threads inside create_kb_cache.
Running == {t \in Threads : threads[t].pc \notin {"idle", "done"}}

\* The threads with a client.caches call in flight.
InFlight == {t \in Threads : threads[t].pc \in {"updating", "creating"}}

\* The callers' mutex: when they serialise, a call starts only when no other
\* call is running.
may_enter(t) == serialized => Running = {}

\* Faulty variant: the name of the created cache is not stored.
store_name_dropped(st, name) == st

\* "self._cached_content_name = cache.name"
store_name(st, name) == [st EXCEPT !.name = name]

\* "self._cached_content_hash = content_hash"
store_hash(st, h) == [st EXCEPT !.hash = h]

\* "self._cache_token_count = getattr(cache.usage_metadata, ...)"
store_tokens(st, tokens) ==
    IF tokens = None THEN st ELSE [st EXCEPT !.tokens = tokens]

\* A create_kb_cache call made before the threads start.
SetupCreateKbCache ==
    /\ \A t \in Threads : threads[t].pc = "idle"
    /\ CreateKbCacheFrom(ThreadTexts, MaxSetupOps)

\* Thread t enters create_kb_cache(kb) and runs up to its first remote call:
\* the gates, the digest and the reuse test.
Begin(t) ==
    /\ threads[t].pc = "idle"
    /\ may_enter(t)
    /\ \E kb \in ThreadTexts :
         LET h  == content_hash(kb)
             th == [threads[t] EXCEPT !.kb = kb, !.observed = CacheState]
         IN  threads' = [threads EXCEPT ![t] =
               IF caching_disabled
               THEN [th EXCEPT !.pc = "done", !.via = "disabled"]
               ELSE IF too_small(kb, model)
               THEN [th EXCEPT !.pc = "done", !.via = "too_small"]
               ELSE IF cache_matches(CacheState, h)
               THEN [th EXCEPT !.pc = "updating", !.h = h]
               ELSE [th EXCEPT !.pc = "creating", !.h = h]]
    /\ UNCHANGED <<config_vars, call_count, cache_vars, remote_calls, hist,
                   response, result, serialized, interpreter_vars>>
    /\ UNCHANGED <<file_vars, request_vars>>

\* client.caches.update returns or raises.  On success the method returns the
\* name the slot holds now; on failure it forgets the name and goes on to
\* client.caches.create.
UpdateReturns(t) ==
    /\ threads[t].pc = "updating"
    /\ \E ok \in BOOLEAN :
         /\ remote_calls' = Append(remote_calls,
                RemoteCall("update", threads[t].observed.name, None, ok))
         /\ IF ok
            THEN /\ threads' = [threads EXCEPT ![t].pc = "done",
                                               ![t].ret = cached_content_name,
                                               ![t].via = "reused"]
                 /\ UNCHANGED cache_vars
            ELSE IF update_guarded
            THEN /\ threads' = [threads EXCEPT ![t].pc = "creating"]
                 /\ SetCache(refresh_failed(CacheState))
            ELSE /\ threads' = [threads EXCEPT ![t].pc = "done",
                                               ![t].via = "raised"]
                 /\ UNCHANGED cache_vars
    /\ UNCHANGED <<config_vars, call_count, hist, response, result,
                   serialized, interpreter_vars>>
    /\ UNCHANGED <<file_vars, request_vars>>

\* client.caches.create returns a new cache or raises.
CreateReturns(t) ==
    /\ threads[t].pc = "creating"
    /\ \E env \in RemoteOutcomes :
         IF env.create_ok
         THEN /\ remote_calls' = Append(remote_calls,
                     RemoteCall("create", NextCacheName, threads[t].kb, TRUE))
              /\ threads' = [threads EXCEPT ![t].pc = "store_name",
                                            ![t].name = NextCacheName,
                                            ![t].tokens = env.tokens]
              /\ cache_pdfs' = cache_pdfs \cup
                     {<<NextCacheName, p>> : p \in uploaded_pdfs}
         ELSE /\ remote_calls' = Append(remote_calls,
                     RemoteCall("create", None, threads[t].kb, FALSE))
              /\ threads' = [threads EXCEPT ![t].pc = "done",
                                 ![t].via = IF create_guarded THEN "failed"
                                            ELSE "raised"]
              /\ UNCHANGED cache_pdfs
    /\ UNCHANGED <<config_vars, call_count, cache_vars, hist, response, result,
                   serialized, interpreter_vars>>
    /\ UNCHANGED <<file_vars, request>>

StoreName(t) ==
    /\ threads[t].pc = "store_name"
    /\ SetCache(store_name(CacheState, threads[t].name))
    /\ threads' = [threads EXCEPT ![t].pc = "store_hash"]
    /\ UNCHANGED <<config_vars, call_count, remote_calls, hist, response,
                   result, serialized, interpreter_vars>>
    /\ UNCHANGED <<file_vars, request_vars>>

StoreHash(t) ==
    /\ threads[t].pc = "store_hash"
    /\ SetCache(store_hash(CacheState, threads[t].h))
    /\ threads' = [threads EXCEPT ![t].pc = "store_tokens"]
    /\ UNCHANGED <<config_vars, call_count, remote_calls, hist, response,
                   result, serialized, interpreter_vars>>
    /\ UNCHANGED <<file_vars, request_vars>>

\* The token count is stored and "return cache.name" is reached.
StoreTokens(t) ==
    /\ threads[t].pc = "store_tokens"
    /\ SetCache(store_tokens(CacheState, threads[t].tokens))
    /\ threads' = [threads EXCEPT ![t].pc = "done",
                                  ![t].ret = threads[t].name,
                                  ![t].via = "created"]
    /\ UNCHANGED <<config_vars, call_count, remote_calls, hist, response,
                   result, serialized, interpreter_vars>>
    /\ UNCHANGED <<file_vars, request_vars>>

ThreadStep ==
    \E t \in Threads :
        \/ Begin(t)
        \/ UpdateReturns(t)
        \/ CreateReturns(t)
        \/ StoreName(t)
        \/ StoreHash(t)
        \/ StoreTokens(t)

NextThreads == SetupCreateKbCache \/ ThreadStep

InitThreads ==
    /\ Constructed(Models)
    /\ serialized \in BOOLEAN
    /\ track_costs = TRUE

SpecThreads == InitThreads /\ [][NextThreads]_vars

(***************************************************************************)
(* AnalyticsInterpreter: interpret and get_cost_summary over the backend.  *)
(***************************************************************************)
\* Number of backend calls made through the interpreter in a run.
MaxCostCalls == 3

\* What the generation request may do in these runs: raise, answer without
\* usage metadata, answer on the short tier, answer on the long tier with
\* cached tokens.
CostGenOutcomes ==
    {[ok |-> FALSE, usage_metadata |-> NoUsageMetadata],
     [ok |-> TRUE, usage_metadata |-> NoUsageMetadata],
     [ok |-> TRUE, usage_metadata |-> UsageMetadata(10000, 500, 0)],
     [ok |-> TRUE, usage_metadata |-> UsageMetadata(250000, 500, 8000)]}

\* What the cache service may do in these runs: serve every call or fail
\* every call.
CostRemoteOutcomes ==
    {e \in RemoteOutcomes : /\ e.update_ok = e.create_ok
                            /\ e.create_ok => e.tokens # None}

\* Faulty variant: only the input tokens are added.
tracked_tokens_input_only(tokens, usage) ==
    [input |-> tokens.input + usage.input_tokens, output |-> tokens.output]

\* "self.total_tokens["input"] += ...; self.total_tokens["output"] += ..."
tracked_tokens(tokens, usage) ==
    [input  |-> tokens.input + usage.input_tokens,
     output |-> tokens.output + usage.output_tokens]

\* "self.total_cost += result.usage.cost"
tracked_cost(cost, usage) == cost + usage.cost

\* max(a, b)
Max(a, b) == IF a >= b THEN a ELSE b

\* The quotient num / den, kept as a fraction.
Quotient(num, den) == [num |-> num, den |-> den]

\* AnalyticsInterpreter.get_cost_summary()
get_cost_summary ==
    [total_calls       |-> call_count,
     total_tokens      |-> total_tokens,
     total_cost_usd    |-> total_cost,
     avg_cost_per_call |-> Quotient(total_cost, Max(call_count, 1))]

\* AnalyticsInterpreter.interpret: without fig and data it raises ValueError
\* before anything happens; otherwise it calls the backend with the
\* knowledge-base context (None: none) and adds the usage of the result, if
\* any, to the totals.
InterpreterInterpret ==
    /\ call_count < MaxCostCalls
    /\ \E has_input \in BOOLEAN, kb_context \in InterpretTexts,
          env \in CostRemoteOutcomes, gen \in CostGenOutcomes :
         IF ~has_input
         THEN UNCHANGED <<call_count, cache_vars, remote_calls, hist, response,
                          result, total_tokens, total_cost, usages,
                          request_vars>>
         ELSE /\ BackendInterpret(kb_context, env, gen)
              /\ LET returned == /\ hist'[Len(hist')].via # "raised"
                                 /\ hist'[Len(hist')].gen # "raised"
                     tracked  == returned /\ track_costs
                                   /\ result'.usage # NoUsage
                 IN  /\ total_tokens' = IF tracked
                                        THEN tracked_tokens(total_tokens, result'.usage)
                                        ELSE total_tokens
                     /\ total_cost' = IF tracked
                                      THEN tracked_cost(total_cost, result'.usage)
                                      ELSE total_cost
                     /\ usages' = IF returned THEN Append(usages, result'.usage)
                                  ELSE usages
    /\ UNCHANGED <<config_vars, caller_vars, track_costs, file_vars>>

NextCost == InterpreterInterpret

InitCost ==
    /\ Constructed(Models)
    /\ serialized = TRUE
    /\ track_costs \in BOOLEAN

SpecCost == InitCost /\ [][NextCost]_vars

(***************************************************************************)
(* load_pdfs.  The call is a loop over the paths; for each path not yet    *)
(* held it uploads the file and, while the file is PROCESSING, sleeps and  *)
(* reads the file again.                                                   *)
(*   pc  "idle"     load_pdfs is not running                               *)
(*       "loop"     at the head of "for pdf_path in pdf_paths"             *)
(*       "polling"  at the head of "while uploaded.state == PROCESSING"    *)
(***************************************************************************)
\* Number of load_pdfs calls in a run.
MaxLoads == 1

\* Number of create_kb_cache and interpret calls in a run with PDFs.
MaxPdfOps == 2

PdfPaths == {1, 2}

\* The lists passed to load_pdfs: one path, two paths, one path twice.
PathLists == {<<1>>, <<2>>, <<1, 2>>, <<1, 1>>}

\* The states a file of the service can be in.
FileStates == {"PROCESSING", "ACTIVE", "FAILED"}

\* The knowledge-base text of the runs with PDFs.
PdfTexts == {13}

\* What generate_content may do in the runs with PDFs.
PdfGenOutcomes ==
    {[ok |-> FALSE, usage_metadata |-> NoUsageMetadata],
     [ok |-> TRUE, usage_metadata |-> NoUsageMetadata]}

\* "if uploaded.state == "ACTIVE": self.uploaded_pdfs[pdf_path] = uploaded"
stored_pdfs(held, path, state) ==
    IF state = "ACTIVE" THEN held \cup {path} ELSE held

\* The loop moves on from the path at the head of the list.
next_path(u) ==
    [u EXCEPT !.pc = "loop", !.todo = Tail(u.todo), !.path = None,
              !.state = "none", !.named = FALSE]

\* load_pdfs(pdf_paths) is called.
LoadPdfsCall ==
    /\ upload.pc = "idle"
    /\ upload.loads < MaxLoads
    /\ \E pdf_paths \in PathLists :
         upload' = [upload EXCEPT !.pc = "loop", !.todo = pdf_paths,
                                  !.loads = @ + 1]
    /\ UNCHANGED <<config_vars, call_count, cache_vars, remote_calls, hist,
                   response, result, caller_vars, interpreter_vars,
                   uploaded_pdfs, request_vars>>

\* One turn of the for loop: return at the end of the list, skip a path that
\* is held, otherwise upload the file, which comes back in some state, with
\* or without a name.
LoopNext ==
    /\ upload.pc = "loop"
    /\ IF upload.todo = <<>>
       THEN /\ upload' = [upload EXCEPT !.pc = "idle"]
            /\ UNCHANGED uploaded_pdfs
       ELSE LET pdf_path == Head(upload.todo) IN
            IF pdf_path \in uploaded_pdfs
            THEN /\ upload' = next_path(upload)
                 /\ UNCHANGED uploaded_pdfs
            ELSE \E state \in FileStates, named \in BOOLEAN :
                   LET u == [upload EXCEPT !.uploads = @ + 1] IN
                   IF state = "PROCESSING"
                   THEN /\ upload' = [u EXCEPT !.pc = "polling",
                                               !.path = pdf_path,
                                               !.state = state,
                                               !.named = named]
                        /\ UNCHANGED uploaded_pdfs
                   ELSE /\ upload' = next_path(u)
                        /\ uploaded_pdfs' = stored_pdfs(uploaded_pdfs, pdf_path, state)
    /\ UNCHANGED <<config_vars, call_count, cache_vars, remote_calls, hist,
                   response, result, caller_vars, interpreter_vars,
                   request_vars>>

\* One turn of the while loop: sleep, then "if uploaded.name:" read the file
\* again; a file without a name is tested again as it is.
Poll ==
    /\ upload.pc = "polling"
    /\ IF upload.named
       THEN \E state \in FileStates :
              IF state = "PROCESSING"
              THEN UNCHANGED <<upload, uploaded_pdfs>>
              ELSE /\ upload' = next_path(upload)
                   /\ uploaded_pdfs' = stored_pdfs(uploaded_pdfs, upload.path, state)
       ELSE UNCHANGED <<upload, uploaded_pdfs>>
    /\ UNCHANGED <<config_vars, call_count, cache_vars, remote_calls, hist,
                   response, result, caller_vars, interpreter_vars,
                   request_vars>>

\* create_kb_cache and interpret between the load_pdfs calls.
PdfCreateKbCache ==
    /\ upload.pc = "idle"
    /\ CreateKbCacheFrom(PdfTexts, MaxPdfOps)

PdfInterpret ==
    /\ upload.pc = "idle"
    /\ Len(hist) < MaxPdfOps
    /\ \E kb \in InterpretTexts, env \in CostRemoteOutcomes,
          gen \in PdfGenOutcomes :
         BackendInterpret(kb, env, gen)
    /\ UNCHANGED <<config_vars, caller_vars, interpreter_vars, file_vars>>

NextPdf ==
    \/ LoadPdfsCall
    \/ LoopNext
    \/ Poll
    \/ PdfCreateKbCache
    \/ PdfInterpret

SpecPdf == Init /\ [][NextPdf]_vars

\* load_pdfs on its own; the loops go on as long as they can, and a file that
\* can be read again is in the end read in a state other than PROCESSING.
NextLoad == LoadPdfsCall \/ LoopNext \/ Poll

SpecLoad ==
    /\ Init
    /\ [][NextLoad]_vars
    /\ WF_vars(LoopNext)
    /\ WF_vars(Poll)

(***************************************************************************)
(* interpret with every combination of its text arguments.                 *)
(***************************************************************************)
\* Number of interpret calls in a run.
MaxPromptOps == 1

\* kb_context: None, the empty text, a text over the threshold.
PromptKbTexts == {None, 1, 13}

\* context and focus: None or a short text.
PromptArgs == {None, 2}

\* custom_prompt: None, the empty text, a short text.
CustomPrompts == {None, 1, 2}

PromptInterpret ==
    /\ Len(hist) < MaxPromptOps
    /\ \E kb \in PromptKbTexts, env \in CostRemoteOutcomes,
          gen \in PdfGenOutcomes, context \in PromptArgs, focus \in PromptArgs,
          custom_prompt \in CustomPrompts :
         BackendInterpretWith(kb, env, gen, context, focus, custom_prompt)
    /\ UNCHANGED <<config_vars, caller_vars, interpreter_vars, file_vars>>

NextPrompt == PromptInterpret

SpecPrompt == Init /\ [][NextPrompt]_vars

(***************************************************************************)
(* Vocabulary of the properties.  ensure_cache is create_kb_cache; its     *)
(* "created" flag is TRUE exactly when the call returned the name of a     *)
(* cache it has just created (via = "created").                            *)
(***************************************************************************)
\* The call ran create_kb_cache: directly, or as the cache step of interpret.
IsEnsure(r) ==
    \/ r.op = "create_kb_cache"
    \/ r.op = "interpret" /\ r.via # "skipped"

Created(r) == r.via = "created"

Raised(r) == r.via = "raised"

\* The minimum of the configured model, from the threshold table.
Threshold ==
    IF model \in DOMAIN MIN_CACHE_TOKENS
    THEN MIN_CACHE_TOKENS[model] ELSE MIN_CACHE_TOKENS["default"]

\* The text passes the size gate of the configured model.
Qualifies(kb) == TextLen[kb] \div 4 >= Threshold

CountCalls(calls, op) == Cardinality({i \in DOMAIN calls : calls[i].op = op})

AllCallsOk(r) == \A i \in DOMAIN r.calls : r.calls[i].ok

CreatesOk(r) == \A i \in DOMAIN r.calls : r.calls[i].op = "create" => r.calls[i].ok

\* A handle is held for the very digest of kb.
HoldsHandleFor(st, kb) == st.name # None /\ st.hash = Sha256Prefix[kb]

\* hist[i..j] is a run of create_kb_cache calls with the one text kb, every
\* remote call of which succeeded.
SameContentRun(i, j, kb) ==
    \A k \in i..j : /\ IsEnsure(hist[k])
                    /\ hist[k].kb = kb
                    /\ AllCallsOk(hist[k])

C4_CreateFailureDegrades ==
    \A i \in DOMAIN hist :
        LET r == hist[i] IN
        ( /\ IsEnsure(r)
          /\ r.pre.name = None
          /\ r.pre.hash = None
          /\ \E c \in DOMAIN r.calls : r.calls[c].op = "create" /\ ~r.calls[c].ok )
        => /\ ~Raised(r)
           /\ r.ret = None
           /\ ~Created(r)
           /\ r.post.name = None
           /\ r.post.hash = None

C4_Witness ==
    /\ Len(hist) >= 1
    /\ IsEnsure(hist[1])
    /\ hist[1].calls = <<RemoteCall("create", None, hist[1].kb, FALSE)>>
    /\ cached_content_name = None

\* C5: when clear_cache returns, whatever the slot was and whatever
\* caches.delete did, the slot is empty (no name, no digest, token count 0)
\* and no exception left the method.
C5_ClearAlwaysEmpties ==
    \A i \in DOMAIN hist :
        hist[i].op = "clear_cache"
        => /\ ~Raised(hist[i])
           /\ hist[i].post = EmptySlot

\* C6: clear_cache calls caches.delete once, with the held name, when a name is
\* held; with no name held it makes no remote call and leaves the slot as it
\* is; so a clear_cache directly after a clear_cache makes no call and changes
\* nothing, and the two together issue at most one delete.
C6_ClearDeletesIffHeld ==
    \A i \in DOMAIN hist :
        LET r == hist[i] IN
        r.op = "clear_cache"
        => /\ r.pre.name # None
                => r.calls = <<RemoteCall("delete", r.pre.name, None,
                                          r.calls[1].ok)>>
           /\ r.pre.name = None => (r.calls = <<>> /\ r.post = r.pre)
           /\ ((i + 1) \in DOMAIN hist /\ hist[i + 1].op = "clear_cache")
                => /\ hist[i + 1].calls = <<>>
                   /\ hist[i + 1].post = r.post
                   /\ CountCalls(r.calls \o hist[i + 1].calls, "delete") <= 1

\* A cache is created, then cleared twice.
C6_Witness ==
    /\ Len(hist) = 3
    /\ Created(hist[1])
    /\ hist[2].op = "clear_cache"
    /\ CountCalls(hist[2].calls, "delete") = 1
    /\ hist[3].op = "clear_cache"

C8_SizeGateBoundary ==
    \A i \in DOMAIN hist :
        LET r == hist[i]
            n == TextLen[r.kb]
        IN  (r.op = "create_kb_cache" /\ enable_caching)
            => /\ (r.via # "too_small") <=> (n \div 4 >= Threshold)
               /\ n \div 4 = Threshold => r.via \in {"created", "reused", "failed"}
               /\ n \div 4 = Threshold - 1 => r.via = "too_small"
               /\ n = 0 => r.via = "too_small"
               /\ (Threshold = 1024 /\ n = 4096) => r.via # "too_small"
               /\ (Threshold = 1024 /\ n = 4092) => r.via = "too_small"

\* A model the table does not list: 4096 characters pass, 4092 do not.
C8_Witness ==
    /\ model = "gemini-2.0-flash"
    /\ enable_caching
    /\ Len(hist) = 2
    /\ TextLen[hist[1].kb] = 4096
    /\ hist[1].via = "created"
    /\ TextLen[hist[2].kb] = 4092
    /\ hist[2].via = "too_small"

HasInterpret == \E i \in DOMAIN hist : hist[i].op = "interpret"

\* The interpret call that `response` and `result` belong to.
LastInterpret ==
    CHOOSE i \in DOMAIN hist :
        /\ hist[i].op = "interpret"
        /\ \A j \in DOMAIN hist : j > i => hist[j].op # "interpret"

\* The last interpret got a response that reports cached tokens.
ReportsCachedTokens ==
    /\ HasInterpret
    /\ hist[LastInterpret].gen = "ok"
    /\ response # NoUsageMetadata
    /\ response.cached_content_token_count > 0

\* Rates of the tier of the response, in cents per 1M tokens.
TierInputRate == IF response.prompt_token_count <= 200000 THEN 200 ELSE 400

TierOutputRate == IF response.prompt_token_count <= 200000 THEN 1200 ELSE 1800

\* C9: when the interpret call whose response reports cached tokens is the call
\* that created the cache, the whole of input_tokens is billed at the standard
\* input rate of the tier; 10000 input, 500 output, 8000 cached cost 0.026 USD.
C9_CreationBilledInFull ==
    (ReportsCachedTokens /\ Created(hist[LastInterpret]))
    => /\ result.usage.cost =
            response.prompt_token_count * TierInputRate
            + response.candidates_token_count * TierOutputRate
       /\ response = UsageMetadata(10000, 500, 8000) => result.usage.cost = 2600000

\* C10: when the response reports cached tokens and the call did not create the
\* cache, the cost is cached * cached rate + (input - cached) * standard rate
\* + output * output rate, and the usage reports the cached tokens; 10000
\* input, 500 output, 8000 cached cost 0.014 USD with cached_tokens = 8000.
C10_CacheHitDiscounted ==
    (ReportsCachedTokens /\ ~Created(hist[LastInterpret]))
    => /\ result.usage.cost =
            response.cached_content_token_count * 50
            + (response.prompt_token_count - response.cached_content_token_count)
                * TierInputRate
            + response.candidates_token_count * TierOutputRate
       /\ result.usage.cached_tokens = response.cached_content_token_count
       /\ response = UsageMetadata(10000, 500, 8000)
            => (result.usage.cost = 1400000 /\ result.usage.cached_tokens = 8000)

\* The cache created by an earlier call is reused by interpret, and the
\* response reports 8000 of 10000 input tokens as cached.
C10_Witness ==
    /\ ReportsCachedTokens
    /\ hist[LastInterpret].via = "reused"
    /\ result.cache_used
    /\ response = UsageMetadata(10000, 500, 8000)
    /\ result.usage.cost = 1400000

\* _calculate_usage was called directly and the response carried usage metadata.
UsageCalculated ==
    /\ hist # <<>>
    /\ hist[1].op = "calculate_usage"
    /\ response # NoUsageMetadata

\* C11: when the response reports no cached tokens, the cost is
\* input_tokens * standard rate + output_tokens * output rate of the tier,
\* the usage reports no cached tokens and cache_savings is None.
C11_NoCacheBaseline ==
    (UsageCalculated /\ response.cached_content_token_count = 0)
    => /\ result.usage.cost =
            response.prompt_token_count * TierInputRate
            + response.candidates_token_count * TierOutputRate
       /\ result.usage.input_tokens = response.prompt_token_count
       /\ result.usage.output_tokens = response.candidates_token_count
       /\ result.usage.cached_tokens = None
       /\ cache_savings(result.usage) = None

\* A long-context response without cached tokens: 250000 * 4.00 + 500 * 18.00
\* per million.
C11_Witness ==
    /\ UsageCalculated
    /\ response = UsageMetadata(250000, 500, 0)
    /\ result.usage.cost = 100900000

\* The last interpret call returned a result with usage.
LastInterpretHasUsage ==
    /\ HasInterpret
    /\ hist[LastInterpret].gen = "ok"
    /\ response # NoUsageMetadata

\* C12: cache_savings is defined exactly when the response reports cached
\* tokens and the call did not create the cache; it then equals
\* cached_tokens * (standard input rate of the tier - cached rate), and the
\* cost is the discounted cost with nothing subtracted for the savings.
C12_SavingsAtTierRate ==
    LastInterpretHasUsage
    => LET cached  == response.cached_content_token_count
           savings == cache_savings(result.usage)
       IN  /\ savings # None
                <=> (cached > 0 /\ ~Created(hist[LastInterpret]))
           /\ savings # None
                => /\ savings = cached * (TierInputRate - PRICING.cached_input)
                   /\ result.usage.cost =
                        cached * PRICING.cached_input
                        + (response.prompt_token_count - cached) * TierInputRate
                        + response.candidates_token_count * TierOutputRate

\* C13: an interpret call whose cache step created the cache reports
\* cache_used = true, cache_created = true and the created name, and is billed
\* in full; one that reused the held handle reports cache_used = true and
\* cache_created = false.
C13_MetadataReportsCreation ==
    (HasInterpret /\ hist[LastInterpret].gen = "ok"
       /\ hist[LastInterpret].via \in {"created", "reused"})
    => /\ metadata_has(result, "cache_used") /\ result.cache_used
       /\ metadata_has(result, "cache_name")
       /\ result.cache_name = hist[LastInterpret].ret
       /\ metadata_has(result, "cache_created")
       /\ (Created(hist[LastInterpret]) /\ response # NoUsageMetadata)
            => result.usage.cost =
                 response.prompt_token_count * TierInputRate
                 + response.candidates_token_count * TierOutputRate

\* C14: whatever client.caches.update and client.caches.create do, an interpret
\* call with knowledge-base content does not raise, calls generate_content once,
\* and passes cached_content exactly when the cache step returned a name.
C14_CacheFailureNeverAborts ==
    \A i \in DOMAIN hist :
        (hist[i].op = "interpret" /\ hist[i].kb # None)
        => /\ ~Raised(hist[i])
           /\ hist[i].gen \in {"ok", "error"}
           /\ hist[i].cached_content = hist[i].ret
           /\ (hist[i].cached_content # None)
                <=> (hist[i].via \in {"created", "reused"})

\* An interpret call during which both the refresh and the create raised.
C14_Witness ==
    \E i \in DOMAIN hist :
        /\ hist[i].op = "interpret" /\ hist[i].kb # None
        /\ Len(hist[i].calls) = 2
        /\ ~hist[i].calls[1].ok /\ ~hist[i].calls[2].ok
        /\ hist[i].gen = "ok"
        /\ hist[i].cached_content = None

\* C15: a cache created by one backend instance is reused by a second instance
\* given the same content against the same service: the second
\* create_kb_cache returns the name the first one returned.
C15_ReusedAcrossInstances ==
    \A i \in DOMAIN hist :
        (/\ i + 2 \in DOMAIN hist
         /\ hist[i].op = "create_kb_cache" /\ Created(hist[i])
         /\ hist[i + 1].op = "__init__"
         /\ hist[i + 2].op = "create_kb_cache"
         /\ hist[i + 2].kb = hist[i].kb)
        => hist[i + 2].ret = hist[i].ret

\* The remote calls of kind op made during the call recorded in r.
CallsOf(r, op) == {k \in DOMAIN r.calls : r.calls[k].op = op}

\* C16: after clear_cache, the next create_kb_cache step with content that
\* passes the size gate, identical or not, makes no client.caches.update, makes
\* one client.caches.create and, when that succeeds, returns a new name as
\* created.
C16_ClearForcesRecreate ==
    \A i \in DOMAIN hist :
        (/\ i + 1 \in DOMAIN hist
         /\ hist[i].op = "clear_cache"
         /\ IsEnsure(hist[i + 1])
         /\ hist[i + 1].via \notin {"disabled", "too_small"})
        => /\ CallsOf(hist[i + 1], "update") = {}
           /\ Cardinality(CallsOf(hist[i + 1], "create")) = 1
           /\ (\E k \in DOMAIN hist[i + 1].calls : hist[i + 1].calls[k].ok)
                => /\ Created(hist[i + 1])
                   /\ hist[i + 1].ret # None
                   /\ hist[i + 1].ret # hist[i].pre.name

\* A cache is created, cleared, and the identical text is cached again under a
\* new name.
C16_Witness ==
    /\ Len(hist) = 3
    /\ hist[1].op = "create_kb_cache" /\ Created(hist[1])
    /\ hist[2].op = "clear_cache" /\ hist[2].pre.name = hist[1].ret
    /\ hist[3].op = "create_kb_cache" /\ hist[3].kb = hist[1].kb
    /\ Created(hist[3])
    /\ hist[3].ret # hist[1].ret

\* The names of the caches the service was asked to delete.
DeletedNames ==
    {remote_calls[k].name : k \in {j \in DOMAIN remote_calls :
                                      remote_calls[j].op = "delete"}}

\* The caches created and never deleted by this client.
UndeletedCaches ==
    {remote_calls[k].name : k \in {j \in DOMAIN remote_calls :
                                      /\ remote_calls[j].op = "create"
                                      /\ remote_calls[j].ok}} \ DeletedNames

\* C17: a create_kb_cache step never calls client.caches.delete; every delete
\* is made by a clear_cache call, for the name held at that moment; a handle
\* replaced by a create is never deleted, and the backend holds at most one of
\* the undeleted caches.
C17_EnsureNeverDeletes ==
    /\ \A i \in DOMAIN hist :
          /\ IsEnsure(hist[i]) => CallsOf(hist[i], "delete") = {}
          /\ (IsEnsure(hist[i]) /\ hist[i].pre.name # None
                /\ hist[i].post.name # hist[i].pre.name)
               => hist[i].pre.name \notin DeletedNames
    /\ DeletedNames = {hist[i].pre.name : i \in {j \in DOMAIN hist :
                            hist[j].op = "clear_cache" /\ hist[j].pre.name # None}}
    /\ cached_content_name # None => cached_content_name \in UndeletedCaches

\* Two caches exist at the service, the backend holds the second, and nothing
\* was deleted.
C17_Witness ==
    /\ Cardinality(UndeletedCaches) = 2
    /\ DeletedNames = {}
    /\ cached_content_name = 2
    /\ \E i \in DOMAIN hist :
          IsEnsure(hist[i]) /\ hist[i].pre.name = 1 /\ hist[i].ret = 2

\* C19: when generate_content raises, interpret does not raise: it returns a
\* result that carries the error and no usage, and the cache slot is the one
\* the cache step left just before the generation request.
C19_GenerationFailureContained ==
    (hist # <<>> /\ hist[Len(hist)].op = "interpret"
       /\ hist[Len(hist)].gen \in {"error", "raised"})
    => /\ hist[Len(hist)].gen = "error"
       /\ result.error
       /\ result.usage = NoUsage
       /\ CacheState = hist[Len(hist)].post

\* The generation request fails right after the cache step created a cache,
\* which stays held.
C19_Witness ==
    /\ hist # <<>>
    /\ hist[Len(hist)].op = "interpret"
    /\ hist[Len(hist)].gen = "error"
    /\ Created(hist[Len(hist)])
    /\ cached_content_name = hist[Len(hist)].ret
    /\ result.error

\* Both threads have returned from create_kb_cache with a cache they created.
BothCreated ==
    \A t \in Threads : threads[t].pc = "done" /\ threads[t].via = "created"

\* C18: whenever two callers of one backend have both created a cache, the
\* backend holds exactly one of the two names and the other cache stays at
\* the service, undeleted and unreferenced; when the callers serialise whole
\* calls, at most one client.caches call is in flight and the two callers never
\* create from the same observed slot.
C18_UnserializedCallersOrphan ==
    /\ BothCreated
         => /\ threads[1].ret # threads[2].ret
            /\ cached_content_name \in {threads[1].ret, threads[2].ret}
            /\ {threads[1].ret, threads[2].ret} \subseteq UndeletedCaches
    /\ serialized
         => /\ Cardinality(InFlight) <= 1
            /\ Cardinality(Running) <= 1
            /\ BothCreated => threads[1].observed # threads[2].observed

\* Without serialisation both callers saw the same empty slot, both created a
\* cache for the same text, and the backend holds only the second one.
C18_Witness ==
    /\ ~serialized
    /\ BothCreated
    /\ threads[1].kb = threads[2].kb
    /\ threads[1].observed = EmptySlot
    /\ threads[2].observed = EmptySlot
    /\ threads[1].ret = 1 /\ threads[2].ret = 2
    /\ cached_content_name = 2
    /\ 1 \in UndeletedCaches

\* The usages of the results that carried one.
WithUsage == {k \in DOMAIN usages : usages[k] # NoUsage}

RECURSIVE SumOver(_, _, _)
\* The sum of us[k][field] over the indices k in S.
SumOver(S, us, field) ==
    IF S = {} THEN 0
    ELSE LET k == CHOOSE x \in S : TRUE
         IN  us[k][field] + SumOver(S \ {k}, us, field)

\* C20: with cost tracking enabled, get_cost_summary reports the sums of
\* usage.cost, usage.input_tokens and usage.output_tokens over exactly the
\* calls whose result carried usage, total_calls is the number of backend
\* interpret calls, and avg_cost_per_call is the total cost over
\* max(call count, 1).
C20_CostSummaryIsSumOfUsages ==
    track_costs
    => LET s     == get_cost_summary
           calls == Cardinality({i \in DOMAIN hist : hist[i].op = "interpret"})
       IN  /\ s.total_cost_usd = SumOver(WithUsage, usages, "cost")
           /\ s.total_tokens.input = SumOver(WithUsage, usages, "input_tokens")
           /\ s.total_tokens.output = SumOver(WithUsage, usages, "output_tokens")
           /\ s.total_calls = calls
           /\ s.avg_cost_per_call.num = SumOver(WithUsage, usages, "cost")
           /\ s.avg_cost_per_call.den = IF calls = 0 THEN 1 ELSE calls

\* Three calls: one whose generation failed, one on the short tier and one on
\* the long tier with cached tokens; 0.026 USD and 0.981 USD.
C20_Witness ==
    /\ track_costs
    /\ Len(usages) = 3
    /\ Cardinality(WithUsage) = 2
    /\ total_cost = 2600000 + (400000 + 96800000 + 900000)
    /\ total_tokens = [input |-> 260000, output |-> 1000]
    /\ call_count = 3

\* C21: a create_kb_cache step made while a handle is held for content with
\* another digest makes no client.caches.update and one client.caches.create;
\* afterwards the backend holds the new handle if the create succeeded and no
\* handle if it failed.
C21_ChangeEndsActiveOrEmpty ==
    \A i \in DOMAIN hist :
        (/\ IsEnsure(hist[i])
         /\ hist[i].via \notin {"disabled", "too_small"}
         /\ hist[i].pre.name # None
         /\ hist[i].pre.hash # content_hash(hist[i].kb))
        => /\ CallsOf(hist[i], "update") = {}
           /\ Cardinality(CallsOf(hist[i], "create")) = 1
           /\ Created(hist[i])
                => /\ hist[i].post.name = hist[i].ret
                   /\ hist[i].ret \notin {None, hist[i].pre.name}
                   /\ hist[i].post.hash = content_hash(hist[i].kb)
           /\ ~Created(hist[i]) => hist[i].post.name = None

\* The successful client.caches.create calls that returned the name.
CreatesOf(name) ==
    {k \in DOMAIN remote_calls : /\ remote_calls[k].op = "create"
                                 /\ remote_calls[k].ok
                                 /\ remote_calls[k].name = name}

\* C22: whenever a name is held, the stored digest is the digest of the text
\* passed to the client.caches.create that returned the name; a reuse returns
\* only a name created for a text with the digest of the text of the call.
C22_HashIsOfCachedContent ==
    /\ cached_content_name # None
         => /\ CreatesOf(cached_content_name) # {}
            /\ \A k \in CreatesOf(cached_content_name) :
                  content_hash(remote_calls[k].text) = cached_content_hash
    /\ \A i \in DOMAIN hist :
          (IsEnsure(hist[i]) /\ hist[i].via = "reused")
          => /\ CreatesOf(hist[i].ret) # {}
             /\ \A k \in CreatesOf(hist[i].ret) :
                   content_hash(remote_calls[k].text) = content_hash(hist[i].kb)

\* A second text replaced the first and was then reused: the held name is the
\* one created for the second text.
C22_Witness ==
    /\ Len(hist) = 3
    /\ Created(hist[1]) /\ Created(hist[2])
    /\ content_hash(hist[1].kb) # content_hash(hist[2].kb)
    /\ hist[3].via = "reused" /\ hist[3].kb = hist[2].kb
    /\ hist[3].ret = hist[2].ret
    /\ cached_content_name = hist[2].ret
    /\ cached_content_hash = content_hash(hist[2].kb)

\* C23: the tier is selected by the input token count of the response, cached
\* tokens included: up to 200,000 the short-context input and output rates,
\* above it the long-context rates, both together; the output costs
\* output_tokens * the tier's output rate and the cost is input cost plus
\* output cost.
C23_TierByTotalInput ==
    UsageCalculated
    => LET input  == response.prompt_token_count
           cached == response.cached_content_token_count
           short  == input <= 200000
           in_rate  == IF short THEN 200 ELSE 400
           out_rate == IF short THEN 1200 ELSE 1800
       IN  /\ result.usage.cost - response.candidates_token_count * out_rate
                = IF cached > 0 THEN cached * 50 + (input - cached) * in_rate
                  ELSE input * in_rate
           /\ output_cost(input, response.candidates_token_count)
                = response.candidates_token_count * out_rate

\* 200,001 input tokens of which 200,000 are cached: the one token that is
\* not cached is billed at the long-context rate, and so is the output.
C23_Witness ==
    /\ UsageCalculated
    /\ response = UsageMetadata(200001, 500, 200000)
    /\ result.usage.cost = 200000 * 50 + 1 * 400 + 500 * 1800

\* C24: whenever interpret makes a request that names a cache, every PDF the
\* backend holds at that moment is among the contents of that cache.
C24_CachedRequestCarriesAllPdfs ==
    (request.sent /\ request.cached_content # None)
    => \A p \in request.held : <<request.cached_content, p>> \in cache_pdfs

\* C25: for every interpret call given a non-empty knowledge-base text, the
\* text reaches the model once: through cached_content and not in the prompt
\* when the cache step returned a name, otherwise in the prompt, whatever
\* context, focus and custom_prompt are.
C25_KnowledgeBaseReachesModelOnce ==
    (/\ hist # <<>>
     /\ hist[Len(hist)].op = "interpret"
     /\ hist[Len(hist)].gen # "none"
     /\ truthy(hist[Len(hist)].kb))
    => /\ request.sent
       /\ request.cached_content = hist[Len(hist)].ret
       /\ request.cached_content # None => request.prompt.kb_context = None
       /\ request.cached_content = None
            => request.prompt.kb_context = hist[Len(hist)].kb

\* C26: in every state, when no name is held the stored digest is absent and
\* the stored token count is zero.
C26_FieldsConsistent ==
    cached_content_name = None
    => /\ cached_content_hash = None
       /\ cache_token_count = 0

\* C27: whenever a create_kb_cache step returns a name, the backend holds that
\* name when the call returns, and the name comes from that call: from a
\* client.caches.update of the held name that succeeded, or from a
\* client.caches.create that succeeded; it is never a name whose refresh
\* failed in the call or one that clear_cache discarded before.
C27_ReturnedNameIsLive ==
    \A i \in DOMAIN hist :
        (IsEnsure(hist[i]) /\ hist[i].ret # None)
        => LET r    == hist[i]
               last == r.calls[Len(r.calls)]
           IN  /\ r.post.name = r.ret
               /\ r.calls # <<>>
               /\ last.ok /\ last.name = r.ret
               /\ \/ last.op = "update" /\ r.pre.name = r.ret
                  \/ last.op = "create"
               /\ \A k \in DOMAIN r.calls :
                     (r.calls[k].op = "update" /\ ~r.calls[k].ok)
                     => r.calls[k].name # r.ret
               /\ \A j \in DOMAIN hist :
                     (j < i /\ hist[j].op = "clear_cache")
                     => hist[j].pre.name # r.ret

\* The refresh of the held name failed and the call returned the name of the
\* cache it created instead.
C27_Witness ==
    \E i \in DOMAIN hist :
        /\ IsEnsure(hist[i])
        /\ Len(hist[i].calls) = 2
        /\ hist[i].calls[1].op = "update" /\ ~hist[i].calls[1].ok
        /\ hist[i].calls[2].op = "create" /\ hist[i].calls[2].ok
        /\ hist[i].ret = hist[i].calls[2].name
        /\ hist[i].ret # hist[i].pre.name
        /\ hist[i].post.name = hist[i].ret

\* The call recorded in r returned before the digest was computed.
ReturnedEarly(r) ==
    /\ r.op \in {"create_kb_cache", "interpret"}
    /\ r.via \in {"disabled", "too_small"}

\* C28: a create_kb_cache step that returns early, caching being disabled or
\* the text being under the minimum, makes no remote call and leaves name,
\* digest and token count as they were; a handle held for another text is
\* reused by the next call with that text.
C28_EarlyReturnKeepsState ==
    \A i \in DOMAIN hist :
        ReturnedEarly(hist[i])
        => /\ hist[i].post = hist[i].pre
           /\ hist[i].calls = <<>>
           /\ hist[i].ret = None
           /\ (/\ i + 1 \in DOMAIN hist
               /\ IsEnsure(hist[i + 1])
               /\ ~ReturnedEarly(hist[i + 1])
               /\ HoldsHandleFor(hist[i].pre, hist[i + 1].kb)
               /\ hist[i + 1].calls[1].ok)
              => /\ hist[i + 1].via = "reused"
                 /\ hist[i + 1].ret = hist[i].pre.name
                 /\ hist[i + 1].post = hist[i].pre

\* A cache with a token count is held, a text under the minimum is passed,
\* and the next call with the first text reuses the cache.
C28_Witness ==
    /\ Len(hist) = 3
    /\ Created(hist[1]) /\ hist[1].post.tokens > 0
    /\ hist[2].via = "too_small" /\ hist[2].post = hist[1].post
    /\ hist[3].kb = hist[1].kb /\ hist[3].via = "reused"
    /\ hist[3].ret = hist[1].ret
    /\ cache_token_count = hist[1].post.tokens

\* The cost of the response is not negative and not above the cost of the
\* same input and output tokens without cached tokens, and the cache fields
\* are as they were before the calculation.
CostWithinBounds ==
    /\ result.usage.cost >= 0
    /\ result.usage.cost <=
         response.prompt_token_count * TierInputRate
         + response.candidates_token_count * TierOutputRate
    /\ CacheState = hist[1].pre

\* C29 as stated: for all non-negative counts reported by a response the cost
\* is within these bounds.
C29_CostBoundedForAllCounts == UsageCalculated => CostWithinBounds

\* C29, amended: the cost is within these bounds for all non-negative counts
\* of which the cached count is not above the input count.
C29_CostBoundedWhenCachedWithinInput ==
    (UsageCalculated
       /\ response.cached_content_token_count <= response.prompt_token_count)
    => CostWithinBounds

\* A long-context response with cached tokens costs less than without them.
C29_Witness ==
    /\ UsageCalculated
    /\ response = UsageMetadata(250000, 500, 8000)
    /\ result.usage.cost = 98100000
    /\ result.usage.cost < 250000 * 400 + 500 * 1800

\* C30: load_pdfs terminates for every list of paths, the service reporting
\* in the end each file it is asked about in a state other than PROCESSING:
\* a call that is running always returns.
C30_LoadPdfsTerminates == (upload.pc # "idle") ~> (upload.pc = "idle")

====
